---- MODULE Spec2Model ----
(***************************************************************************)
(* The popup script of the photo manager extension (extension/popup.js):   *)
(* the shared pagination/filter state, loadPhotos with its fetch in        *)
(* flight, and the event handlers that call it.                            *)
(*                                                                         *)
(* Texts.  SANY accepts no Cyrillic inside a string, so the Russian        *)
(* literals of the script are written in English; each definition quotes   *)
(* the literal it stands for.  A text that is only displayed is a TLA+     *)
(* string; a text that is parsed again (the request URL, the search text)  *)
(* is a sequence of one-character strings.                                 *)
(*                                                                         *)
(* JavaScript values read from a response body are records [t, v]: t is    *)
(* the JavaScript type and v the value (a default when t = "undefined").   *)
(***************************************************************************)
EXTENDS Integers, Sequences, FiniteSets, TLC

\* ------------------------------------------------------------- bounds

\* loadPhotos calls issued in one run.
MaxCalls == 2
\* The largest page number a server response reports.
MaxPage == 2
\* The longest search text of the systematic part of UrlQueries.
MaxQueryLen == 2
\* Clipboard writes and 2-second message timers pending at one time.
MaxPending == 2

\* ------------------------------------------------------ JavaScript values

Num(n) == [t |-> "number", v |-> n]
undefined == [t |-> "undefined", v |-> 0]
Str(s) == [t |-> "string", v |-> s]
undefinedStr == [t |-> "undefined", v |-> ""]
Arr(a) == [t |-> "array", v |-> a]
undefinedArr == [t |-> "undefined", v |-> <<>>]

\* a > b, a < b, a <= b, a >= b of JavaScript on numbers and undefined:
\* undefined converts to NaN and every comparison with NaN is false.
JsGt(a, b) == a.t = "number" /\ b.t = "number" /\ a.v > b.v
JsLt(a, b) == a.t = "number" /\ b.t = "number" /\ a.v < b.v
JsLe(a, b) == a.t = "number" /\ b.t = "number" /\ a.v <= b.v
JsGe(a, b) == a.t = "number" /\ b.t = "number" /\ a.v >= b.v
\* `${x}` of a number or undefined, as a displayed text.
JsStr(a) == IF a.t = "number" THEN ToString(a.v) ELSE "undefined"
\* x || y picks y when x is falsy: undefined or the empty string.
Truthy(s) == s.t = "string" /\ s.v # ""

\* ------------------------------------------------------------------ text

Digit(d) == <<"0", "1", "2", "3", "4", "5", "6", "7", "8", "9">>[d + 1]
\* `${page}` of a non-negative integer, as characters.
RECURSIVE Decimal(_)
Decimal(n) == IF n < 10 THEN <<Digit(n)>> ELSE Decimal(n \div 10) \o <<Digit(n % 10)>>
PageText(page) == IF page < 0 THEN <<"-">> \o Decimal(-page) ELSE Decimal(page)

\* popup.js:1.  The origin's text is never parsed again, so it is one element.
API_BASE_URL == <<"http://37.220.81.157:8088">>
\* popup.js:24  inStockFilter ? '&in_stock=true' : ''
StockParamOn == <<"&", "i", "n", "_", "s", "t", "o", "c", "k", "=", "t", "r", "u", "e">>
stockParam(inStockFilter) == IF inStockFilter THEN StockParamOn ELSE <<>>
\* popup.js:25  `${API_BASE_URL}/api/list?page=${page}&query=${query}${stockParam}`
ListPath == <<"/", "a", "p", "i", "/", "l", "i", "s", "t">>
\* As url, with the page counted from zero.
urlZeroBased(page, query, inStockFilter) ==
    API_BASE_URL \o ListPath \o <<"?", "p", "a", "g", "e", "=">> \o PageText(page - 1)
        \o <<"&", "q", "u", "e", "r", "y", "=">> \o query \o stockParam(inStockFilter)
url(page, query, inStockFilter) ==
    API_BASE_URL \o ListPath \o <<"?", "p", "a", "g", "e", "=">> \o PageText(page)
        \o <<"&", "q", "u", "e", "r", "y", "=">> \o query \o stockParam(inStockFilter)

\* ------------------------------------------- the request as the server reads it
\* fetch() parses the URL (WHATWG URL: the fragment is cut off and not sent, a
\* space of the query is sent as %20); the API behind GET /api/list reads the
\* query string as form-urlencoded parameters (spec, section 6).

\* The index of the first element of s equal to c, 0 when there is none.
RECURSIVE IndexOf(_, _, _)
IndexOf(s, c, i) ==
    IF i > Len(s) THEN 0 ELSE IF s[i] = c THEN i ELSE IndexOf(s, c, i + 1)
Before(s, c) == LET i == IndexOf(s, c, 1) IN IF i = 0 THEN s ELSE SubSeq(s, 1, i - 1)
After(s, c) == LET i == IndexOf(s, c, 1) IN IF i = 0 THEN <<>> ELSE SubSeq(s, i + 1, Len(s))
\* s split at every c.
RECURSIVE Split(_, _)
Split(s, c) ==
    IF IndexOf(s, c, 1) = 0 THEN <<s>> ELSE <<Before(s, c)>> \o Split(After(s, c), c)

\* The query string as fetch sends it: after the first "?", up to the first "#",
\* each space written %20.
RECURSIVE QueryEncode(_)
QueryEncode(s) ==
    IF s = <<>> THEN <<>>
    ELSE (IF s[1] = " " THEN <<"%", "2", "0">> ELSE <<s[1]>>) \o QueryEncode(Tail(s))
SentQuery(u) == QueryEncode(After(Before(u, "#"), "?"))

HexDigits == {"0", "1", "2", "3", "4", "5", "6", "7", "8", "9",
              "a", "b", "c", "d", "e", "f", "A", "B", "C", "D", "E", "F"}
\* The characters the model's texts can hold, with their %XX codes.
Unescape(h1, h2) ==
    CASE <<h1, h2>> = <<"2", "0">> -> " "
      [] <<h1, h2>> = <<"2", "3">> -> "#"
      [] <<h1, h2>> = <<"2", "5">> -> "%"
      [] <<h1, h2>> = <<"2", "6">> -> "&"
      [] <<h1, h2>> \in {<<"2", "b">>, <<"2", "B">>} -> "+"
      [] <<h1, h2>> \in {<<"3", "d">>, <<"3", "D">>} -> "="
      [] <<h1, h2>> = <<"6", "1">> -> "a"
      [] OTHER -> "?"
\* Form decoding of one name or value: "+" is a space, %XX is the character
\* with that code, a "%" not followed by two hex digits stays.
RECURSIVE FormDecode(_)
FormDecode(s) ==
    IF s = <<>> THEN <<>>
    ELSE IF s[1] = "+" THEN <<" ">> \o FormDecode(Tail(s))
    ELSE IF s[1] = "%" /\ Len(s) >= 3 /\ s[2] \in HexDigits /\ s[3] \in HexDigits
         THEN <<Unescape(s[2], s[3])>> \o FormDecode(SubSeq(s, 4, Len(s)))
    ELSE <<s[1]>> \o FormDecode(Tail(s))
\* The name/value pairs of the query string, in order; empty pieces are skipped.
Param(name, value) == [name |-> name, value |-> value]
Pair(piece) == Param(FormDecode(Before(piece, "=")), FormDecode(After(piece, "=")))
NonEmpty(piece) == piece # <<>>
ServerParams(u) ==
    LET pieces == SelectSeq(Split(SentQuery(u), "&"), NonEmpty)
    IN  [i \in 1..Len(pieces) |-> Pair(pieces[i])]
\* The path the request goes to: the URL up to its query string.
RequestPath(u) == Before(Before(u, "#"), "?")
\* The integer a parameter's text stands for, when it is a decimal numeral.
Digits == <<"0", "1", "2", "3", "4", "5", "6", "7", "8", "9">>
IsDecimal(s) == s # <<>> /\ \A i \in 1..Len(s) : IndexOf(Digits, s[i], 1) # 0
RECURSIVE ParseInt(_)
ParseInt(s) ==
    IF s = <<>> THEN 0
    ELSE 10 * ParseInt(SubSeq(s, 1, Len(s) - 1)) + (IndexOf(Digits, s[Len(s)], 1) - 1)


\* ------------------------------------------------------------ responses
\* What the server may answer.  A body is what response.json() makes of it:
\* a SyntaxError, null, or an object with the fields it carries.

Body(json, detail, files, current_page, total_pages) ==
    [json |-> json, detail |-> detail, files |-> files,
     current_page |-> current_page, total_pages |-> total_pages]
Unparsable == Body("syntaxerror", undefinedStr, undefinedArr, undefined, undefined)
NullBody == Body("null", undefinedStr, undefinedArr, undefined, undefined)
ErrorObject(detail) == Body("object", detail, undefinedArr, undefined, undefined)
Listing(files, current_page, total_pages) ==
    Body("object", undefinedStr, files, current_page, total_pages)

FileEntry(name) == [t |-> "object", name |-> name]
nullEntry == [t |-> "null", name |-> ""]
FileA == FileEntry("a.jpg")
FileB == FileEntry("b.jpg")
FileLists == {<<>>, <<FileA, FileB>>}
\* The pagination states of a server that keeps 1 <= current_page <= total_pages.
PagePairs == {<<c, t>> \in (1..MaxPage) \X (1..MaxPage) : c <= t}

\* popup.js:28  The message of the TypeError fetch rejects with when no
\* response is obtained.
FailedToFetch == "Failed to fetch"
\* The detail of an error body is any text of the server's choosing: one that
\* names a failure of the server's own, one that reads as the runtime's.
ErrorBodies ==
    {Unparsable, NullBody, ErrorObject(undefinedStr), ErrorObject(Str("")),
     ErrorObject(Str("db down")), ErrorObject(Str(FailedToFetch))}
ListingBodies == {Listing(Arr(fs), Num(p[1]), Num(p[2])) : fs \in FileLists, p \in PagePairs}
MalformedBodies ==
    {Unparsable, NullBody,
     Listing(undefinedArr, Num(1), Num(1)),
     Listing(Arr(<<FileA>>), undefined, Num(MaxPage)),
     Listing(Arr(<<FileA>>), Num(1), undefined),
     Listing(Arr(<<FileA, nullEntry>>), Num(1), Num(1)),
     Listing(Arr(<<>>), Num(-1), Num(1))}

Http(status, body) == [kind |-> "http", status |-> status, body |-> body]
NetworkFailure == [kind |-> "network", status |-> 0, body |-> Unparsable]
NoResponse == [kind |-> "none", status |-> 0, body |-> Unparsable]
\* part_001:181 names the statuses the API answers a failure with.
ErrorStatuses == {500, 503}
Responses ==
    {NetworkFailure}
        \cup {Http(s, b) : s \in ErrorStatuses, b \in ErrorBodies}
        \cup {Http(200, b) : b \in ListingBodies \cup MalformedBodies}

\* response.ok
ok(response) == response.status \in 200..299
\* The server keeps its pagination contract in this response.
InContract(response) ==
    (response.kind = "http" /\ ok(response) /\ response.body.json = "object")
        => (JsLe(Num(1), response.body.current_page)
            /\ JsLe(response.body.current_page, response.body.total_pages))

\* ------------------------------------------------------- displayed texts

\* popup.js:20  'Загрузка...'
Loading == "Loading..."
\* popup.js:49  'Фотографии не найдены.'
NotFound == "No photos found."
\* popup.js:53  `Ошибка: ${error.message}`
ErrorText(message) == "Error: " \o message
\* popup.js:45  `Страница ${currentPage} из ${totalPages}`
PageInfoText(cp, tp) == "Page " \o JsStr(cp) \o " of " \o JsStr(tp)
\* popup.js:32  `Ошибка API: ${response.status}`
StatusMessage(status) == "API error: " \o ToString(status)
\* As ApiErrorMessage, with ?? written for ||: an empty detail is surfaced.
ApiErrorMessageNullish(errorBody, status) ==
    IF errorBody.detail.t = "string" THEN errorBody.detail.v ELSE StatusMessage(status)
\* popup.js:32  errorBody.detail || `Ошибка API: ${response.status}`
ApiErrorMessage(errorBody, status) ==
    IF Truthy(errorBody.detail) THEN errorBody.detail.v ELSE StatusMessage(status)

\* popup.js:106, 121  'Цена скопирована!', 'Ссылка скопирована!'
PriceCopied == "Price copied!"
LinkCopied == "Link copied!"
SuccessMessages == {PriceCopied, LinkCopied}
\* popup.js:147  'Ошибка копирования!'
CopyError == "Copy failed!"
\* popup.js:165  'Скачивание начато!'
DownloadStarted == "Download started!"

\* The messages of the errors the runtime throws.
\* popup.js:31, popup.js:35  response.json() rejects
JsonSyntaxError == "Unexpected token in JSON"
\* popup.js:32  errorBody.detail of null
NullDetailError == "Cannot read properties of null (reading 'detail')"
\* popup.js:37  data.files of null
NullFilesError == "Cannot read properties of null (reading 'files')"
\* popup.js:37  data.files.forEach of undefined
NoForEachError == "Cannot read properties of undefined (reading 'forEach')"
\* popup.js:63  file.stock of null
NullStockError == "Cannot read properties of null (reading 'stock')"

\* ------------------------------------------------------------- rendering

\* popup.js:60-134  The element of one file; reading file.stock of null throws.
createPhotoElement(file) == [alt |-> file.name]
\* popup.js:37-40  data.files.forEach: append one element per file, in order;
\* an entry that throws leaves the elements appended before it.
RECURSIVE forEachAppend(_, _)
forEachAppend(files, g) ==
    IF files = <<>> THEN [grid |-> g, threw |-> FALSE]
    ELSE IF Head(files).t = "null" THEN [grid |-> g, threw |-> TRUE]
    ELSE forEachAppend(Tail(files), Append(g, createPhotoElement(Head(files))))

\* popup.js:28-49  The try block from the resolved fetch on, for one response
\* and the grid as it is then: whether it threw, the thrown error's message,
\* and the grid it leaves.
Thrown(message, g) == [threw |-> TRUE, message |-> message, grid |-> g]
TryBlock(response, g) ==
    IF response.kind = "network" THEN Thrown(FailedToFetch, g)
    ELSE IF ~ok(response) THEN
        IF response.body.json = "syntaxerror" THEN Thrown(JsonSyntaxError, g)
        ELSE IF response.body.json = "null" THEN Thrown(NullDetailError, g)
        ELSE Thrown(ApiErrorMessage(response.body, response.status), g)
    ELSE IF response.body.json = "syntaxerror" THEN Thrown(JsonSyntaxError, g)
    ELSE IF response.body.json = "null" THEN Thrown(NullFilesError, g)
    ELSE IF response.body.files.t = "undefined" THEN Thrown(NoForEachError, g)
    ELSE LET r == forEachAppend(response.body.files.v, g)
         IN  IF r.threw THEN Thrown(NullStockError, r.grid)
             ELSE [threw |-> FALSE, message |-> "", grid |-> r.grid]

\* ------------------------------------------------------------------ state

VARIABLES
    currentPage,          \* popup.js:2
    currentQuery,         \* popup.js:3
    totalPages,           \* popup.js:4
    isStockFilterActive,  \* popup.js:6
    grid,                 \* popup.js:8   the children of #photos-grid
    searchInput,          \* popup.js:9   searchInput.value
    stockCheckbox,        \* popup.js:11  stockCheckbox.checked
    prevBtn,              \* popup.js:12  prevBtn.disabled
    nextBtn,              \* popup.js:13  nextBtn.disabled
    pageInfo,             \* popup.js:14  pageInfo.textContent
    messageElement,       \* popup.js:15  messageElement.textContent
    searchTimeout,        \* popup.js:177 TRUE while the debounce timer is pending
    inflight,             \* the loadPhotos calls awaiting their response, in call order
    loaded,               \* DOMContentLoaded has fired
    calls,                \* loadPhotos calls so far
    lastSettled,          \* history: the response of the call settled last, until
                          \*   the next call starts
    newestResp,           \* history: the response of the newest call, once it has one
    reported,             \* history: the pagination of the last listing processed
    inContract,           \* history: every response so far kept the pagination contract
    events,               \* history: the events whose handler has called loadPhotos
    first,                \* history: the first of two calls in a row with the same
                          \*   arguments: its request, its response, what it left
    clipboardWrites,      \* popup.js:140 the success messages of the writeText
                          \*   promises not settled yet
    messageTimers         \* popup.js:143, 166 the 2-second timers pending

vars ==
    <<currentPage, currentQuery, totalPages, isStockFilterActive, grid, searchInput,
      stockCheckbox, prevBtn, nextBtn, pageInfo, messageElement, searchTimeout,
      inflight, loaded, calls, lastSettled, newestResp, reported,
      inContract, events, first, clipboardWrites, messageTimers>>

\* What a load leaves for the user and for the next handler: the grid, the
\* pagination state and its display, the buttons and the message.
Display ==
    [grid |-> grid, currentPage |-> currentPage, totalPages |-> totalPages,
     pageInfo |-> pageInfo, prevBtn |-> prevBtn, nextBtn |-> nextBtn,
     messageElement |-> messageElement]
NoFirst ==
    [page |-> 0, query |-> <<>>, inStockFilter |-> FALSE, url |-> <<>>,
     response |-> NoResponse,
     display |-> [grid |-> <<>>, currentPage |-> undefined, totalPages |-> undefined,
                  pageInfo |-> "", prevBtn |-> FALSE, nextBtn |-> FALSE,
                  messageElement |-> ""]]

\* The texts the user types into the search field.
Queries == {<<>>, <<"a">>, <<"a", "b">>}

\* popup.js:1-15, 177  The script has run.  popup.html is not part of the
\* sources: the buttons start enabled or disabled, the texts start empty.
Init ==
    /\ currentPage = Num(1)
    /\ currentQuery = <<>>
    /\ totalPages = Num(1)
    /\ isStockFilterActive = FALSE
    /\ grid = <<>>
    /\ searchInput = <<>>
    /\ stockCheckbox = FALSE
    /\ prevBtn \in BOOLEAN
    /\ nextBtn \in BOOLEAN
    /\ pageInfo = ""
    /\ messageElement = ""
    /\ searchTimeout = FALSE
    /\ inflight = <<>>
    /\ loaded = FALSE
    /\ calls = 0
    /\ lastSettled = NoResponse
    /\ newestResp = NoResponse
    /\ reported = [current_page |-> undefined, total_pages |-> undefined]
    /\ inContract = TRUE
    /\ events = 0
    /\ first = NoFirst
    /\ clipboardWrites = <<>>
    /\ messageTimers = 0

\* ------------------------------------------------------------- loadPhotos

\* As loadPhotos, with the grid left as it is.
loadPhotosKeepGrid(trigger, page, query, inStockFilter) ==
    /\ calls < MaxCalls
    /\ messageElement' = Loading
    /\ inflight' = Append(inflight,
            [trigger |-> trigger, page |-> page, query |-> query,
             inStockFilter |-> inStockFilter, method |-> "GET",
             url |-> url(page, query, inStockFilter)])
    /\ calls' = calls + 1
    /\ lastSettled' = NoResponse
    /\ newestResp' = NoResponse
    /\ UNCHANGED <<currentPage, totalPages, prevBtn, nextBtn, pageInfo, reported,
                   inContract, grid>>
\* As loadPhotos, with the fetch issued twice.
loadPhotosTwice(trigger, page, query, inStockFilter) ==
    LET request == [trigger |-> trigger, page |-> page, query |-> query,
                    inStockFilter |-> inStockFilter, method |-> "GET",
                    url |-> url(page, query, inStockFilter)]
    IN  /\ calls < MaxCalls
        /\ messageElement' = Loading
        /\ grid' = <<>>
        /\ inflight' = inflight \o <<request, request>>
        /\ calls' = calls + 2
        /\ lastSettled' = NoResponse
        /\ newestResp' = NoResponse
        /\ UNCHANGED <<currentPage, totalPages, prevBtn, nextBtn, pageInfo, reported,
                       inContract>>
\* popup.js:19-28  loadPhotos up to its first await: show the loading text,
\* clear the grid, build the URL and start the fetch.  fetch(url) is given no
\* options: the request is a GET.
loadPhotos(trigger, page, query, inStockFilter) ==
    /\ calls < MaxCalls
    /\ messageElement' = Loading
    /\ grid' = <<>>
    /\ inflight' = Append(inflight,
            [trigger |-> trigger, page |-> page, query |-> query,
             inStockFilter |-> inStockFilter, method |-> "GET",
             url |-> url(page, query, inStockFilter)])
    /\ calls' = calls + 1
    /\ lastSettled' = NoResponse
    /\ newestResp' = NoResponse
    /\ UNCHANGED <<currentPage, totalPages, prevBtn, nextBtn, pageInfo, reported,
                   inContract>>

\* Calls are appended in call order: the newest call is the last one in flight,
\* unless it has its response already.
IsNewest(i) == i = Len(inflight) /\ newestResp = NoResponse
Remove(s, i) == SubSeq(s, 1, i - 1) \o SubSeq(s, i + 1, Len(s))

\* As Pagination, with the requested page kept as the current page.
PaginationFromRequest(page, data) ==
    [current_page |-> Num(page), total_pages |-> data.total_pages]
\* popup.js:43-44  The pagination installed after a listing: the response's,
\* not the requested page (the parameter page, in scope and not read).
Pagination(page, data) ==
    [current_page |-> data.current_page, total_pages |-> data.total_pages]

\* popup.js:42-49  The listing was rendered: install the pagination.
Installed(page, data, g) ==
    LET p == Pagination(page, data)
    IN  /\ grid' = g
        /\ currentPage' = p.current_page
        /\ totalPages' = p.total_pages
        /\ pageInfo' = PageInfoText(p.current_page, p.total_pages)
        /\ prevBtn' = JsLe(p.current_page, Num(1))
        /\ nextBtn' = JsGe(p.current_page, p.total_pages)
        /\ messageElement' = (IF Len(data.files.v) = 0 THEN NotFound ELSE "")
        /\ reported' = [current_page |-> data.current_page, total_pages |-> data.total_pages]

\* As Caught, with the buttons left as they are.
CaughtButtonsKept(message, g) ==
    /\ grid' = g
    /\ messageElement' = ErrorText(message)
    /\ UNCHANGED <<currentPage, totalPages, pageInfo, reported, prevBtn, nextBtn>>
\* popup.js:51-56  The catch block.  console.error writes nothing the script
\* or the page reads.
Caught(message, g) ==
    /\ grid' = g
    /\ messageElement' = ErrorText(message)
    /\ prevBtn' = TRUE
    /\ nextBtn' = TRUE
    /\ UNCHANGED <<currentPage, totalPages, pageInfo, reported>>

\* popup.js:28-56  The rest of one loadPhotos call, run when its response (or
\* the fetch's failure) is there.  Nothing of the shared state is written
\* between `await fetch` and `await response.json()`, so both are one step.
Settle(i, response) ==
    LET r == TryBlock(response, grid)
    IN  /\ IF r.threw THEN Caught(r.message, r.grid)
           ELSE Installed(inflight[i].page, response.body, r.grid)
        /\ inflight' = Remove(inflight, i)
        /\ lastSettled' = response
        /\ newestResp' = (IF IsNewest(i) THEN response ELSE newestResp)
        /\ inContract' = (inContract /\ InContract(response))
        /\ UNCHANGED <<currentQuery, isStockFilterActive, searchInput, stockCheckbox,
                       searchTimeout, loaded, calls, events>>

ResponseArrives ==
    \E i \in 1..Len(inflight) : \E response \in Responses :
        Settle(i, response) /\ UNCHANGED <<first, clipboardWrites, messageTimers>>

\* ---------------------------------------------------------- event handlers

\* popup.js:208-210
DOMContentLoaded ==
    /\ ~loaded
    /\ loadPhotos("init", currentPage.v, currentQuery, isStockFilterActive)
    /\ loaded' = TRUE
    /\ events' = events + 1
    /\ UNCHANGED <<currentQuery, isStockFilterActive, searchInput, stockCheckbox,
                   searchTimeout, first, clipboardWrites,
                       messageTimers>>

\* As SearchInputFrom, with no debounce: every input event sets currentQuery
\* and calls loadPhotos at once.
SearchInputFromUndebounced(texts) ==
    \E text \in texts :
        /\ loaded
        /\ text # searchInput
        /\ searchInput' = text
        /\ currentQuery' = text
        /\ loadPhotos("search", 1, text, isStockFilterActive)
        /\ events' = events + 1
        /\ UNCHANGED <<isStockFilterActive, stockCheckbox, searchTimeout, loaded, first, clipboardWrites,
                       messageTimers>>
\* popup.js:178-185  An input event: the field holds a new text and the
\* debounce timer is cleared and started again.
SearchInputFrom(texts) ==
    \E text \in texts :
        /\ loaded
        /\ text # searchInput
        /\ searchInput' = text
        /\ searchTimeout' = TRUE
        /\ UNCHANGED <<currentPage, currentQuery, totalPages, isStockFilterActive, grid,
                       stockCheckbox, prevBtn, nextBtn, pageInfo, messageElement,
                       inflight, loaded, calls, lastSettled, newestResp, reported,
                       inContract, events, first, clipboardWrites,
                       messageTimers>>
SearchInput == SearchInputFrom(Queries)

\* As SearchTimeoutFires, with loadPhotos called before currentQuery is assigned.
SearchTimeoutFiresStale ==
    /\ searchTimeout
    /\ searchTimeout' = FALSE
    /\ currentQuery' = searchInput
    /\ loadPhotos("search", 1, currentQuery, isStockFilterActive)
    /\ events' = events + 1
    /\ UNCHANGED <<isStockFilterActive, searchInput, stockCheckbox, loaded, first, clipboardWrites,
                       messageTimers>>
\* popup.js:180-184  The debounce timer fires, 500 ms after the last input event.
SearchTimeoutFires ==
    /\ searchTimeout
    /\ searchTimeout' = FALSE
    /\ currentQuery' = searchInput
    /\ loadPhotos("search", 1, searchInput, isStockFilterActive)
    /\ events' = events + 1
    /\ UNCHANGED <<isStockFilterActive, searchInput, stockCheckbox, loaded, first, clipboardWrites,
                       messageTimers>>

\* popup.js:188-192  The user toggles the "in stock" checkbox.
StockChange ==
    /\ loaded
    /\ stockCheckbox' = ~stockCheckbox
    /\ isStockFilterActive' = ~stockCheckbox
    /\ loadPhotos("stock", 1, currentQuery, ~stockCheckbox)
    /\ events' = events + 1
    /\ UNCHANGED <<currentQuery, searchInput, searchTimeout, loaded, first, clipboardWrites,
                       messageTimers>>

\* As canGoNext, with <= written for <.
canGoNextInclusive(page, total) == JsLe(page, total)
\* As canGoPrev, with >= written for >.
canGoPrevInclusive(page) == JsGe(page, Num(1))
\* popup.js:196  currentPage > 1
canGoPrev(page) == JsGt(page, Num(1))
\* popup.js:202  currentPage < totalPages
canGoNext(page, total) == JsLt(page, total)

\* popup.js:195-199  A click on the previous-page button; a disabled button
\* gets no click.
PrevClick ==
    /\ loaded
    /\ ~prevBtn
    /\ IF canGoPrev(currentPage)
       THEN /\ loadPhotos("prev", currentPage.v - 1, currentQuery, isStockFilterActive)
            /\ events' = events + 1
            /\ UNCHANGED <<currentQuery, isStockFilterActive, searchInput, stockCheckbox,
                           searchTimeout, loaded, first, clipboardWrites,
                       messageTimers>>
       ELSE UNCHANGED vars

\* popup.js:201-205  A click on the next-page button.
NextClick ==
    /\ loaded
    /\ ~nextBtn
    /\ IF canGoNext(currentPage, totalPages)
       THEN /\ loadPhotos("next", currentPage.v + 1, currentQuery, isStockFilterActive)
            /\ events' = events + 1
            /\ UNCHANGED <<currentQuery, isStockFilterActive, searchInput, stockCheckbox,
                           searchTimeout, loaded, first, clipboardWrites,
                       messageTimers>>
       ELSE UNCHANGED vars

Next ==
    \/ DOMContentLoaded
    \/ SearchInput
    \/ SearchTimeoutFires
    \/ StockChange
    \/ PrevClick
    \/ NextClick
    \/ ResponseArrives

Spec == Init /\ [][Next]_vars

\* ---------------------------------------------- the request loadPhotos builds
\* The same handlers, driven with search texts that hold the characters a
\* query string gives a meaning to.  A run starts in a state the popup is in
\* once a listing has been shown: the first load (or the reload after a change
\* of the checkbox) was answered with an empty page p[1] of p[2].  calls counts
\* the calls from there on.

Alphabet == {"a", "&", "=", "#", "+", "%", " "}
Texts(n) == UNION {[1..k -> Alphabet] : k \in 0..n}
UrlQueries ==
    Texts(MaxQueryLen)
        \cup {<<"a">> \o StockParamOn, <<"%", "6", "1">>, <<"a", "%", "2", "6", "b">>,
              <<"&", "p", "a", "g", "e", "=", "9">>}

\* popup.js:42-49  The state once the one load so far has been answered with
\* the empty page cp of tp, the checkbox set or not.
ListingShown(cp, tp) ==
        LET shown == Http(200, Listing(Arr(<<>>), Num(cp), Num(tp)))
        IN  /\ currentPage = Num(cp)
            /\ currentQuery = <<>>
            /\ totalPages = Num(tp)
            /\ isStockFilterActive \in BOOLEAN
            /\ grid = <<>>
            /\ searchInput = <<>>
            /\ stockCheckbox = isStockFilterActive
            /\ prevBtn = JsLe(Num(cp), Num(1))
            /\ nextBtn = JsGe(Num(cp), Num(tp))
            /\ pageInfo = PageInfoText(Num(cp), Num(tp))
            /\ messageElement = NotFound
            /\ searchTimeout = FALSE
            /\ inflight = <<>>
            /\ loaded = TRUE
            /\ calls = 0
            /\ lastSettled = shown
            /\ newestResp = shown
            /\ reported = [current_page |-> Num(cp), total_pages |-> Num(tp)]
            /\ inContract = InContract(shown)
            /\ events = 0
            /\ first = NoFirst
            /\ clipboardWrites = <<>>
            /\ messageTimers = 0

InitUrl == \E p \in PagePairs : ListingShown(p[1], p[2])

\* One text is typed into the still empty field.
SearchInputUrl == searchInput = <<>> /\ SearchInputFrom(UrlQueries)

NextUrl ==
    \/ SearchInputUrl
    \/ SearchTimeoutFires
    \/ StockChange
    \/ PrevClick
    \/ NextClick

SpecUrl == InitUrl /\ [][NextUrl]_vars

\* ---------------------------------------------------------- paging alone
\* The prev and next buttons and the responses to their requests: clicks come
\* one after the other or several before any response.  A run starts with the
\* first load still in flight (the buttons as popup.html has them), or with a
\* page shown: one of a server that keeps 1 <= current_page <= total_pages, or
\* the page -1 of 1 of one that does not.  calls counts the calls from there on.

\* popup.js:208-210  Init, then DOMContentLoaded.
FirstLoadInFlight ==
    /\ currentPage = Num(1)
    /\ currentQuery = <<>>
    /\ totalPages = Num(1)
    /\ isStockFilterActive = FALSE
    /\ grid = <<>>
    /\ searchInput = <<>>
    /\ stockCheckbox = FALSE
    /\ prevBtn \in BOOLEAN
    /\ nextBtn \in BOOLEAN
    /\ pageInfo = ""
    /\ messageElement = Loading
    /\ searchTimeout = FALSE
    /\ inflight = <<[trigger |-> "init", page |-> 1, query |-> <<>>,
                     inStockFilter |-> FALSE, method |-> "GET",
                     url |-> url(1, <<>>, FALSE)]>>
    /\ loaded = TRUE
    /\ calls = 0
    /\ lastSettled = NoResponse
    /\ newestResp = NoResponse
    /\ reported = [current_page |-> undefined, total_pages |-> undefined]
    /\ inContract = TRUE
    /\ events = 0
    /\ first = NoFirst
    /\ clipboardWrites = <<>>
    /\ messageTimers = 0

ShownPairs == PagePairs \cup {<<-1, 1>>}
InitPaging ==
    \/ FirstLoadInFlight
    \/ \E p \in ShownPairs : ListingShown(p[1], p[2])

NextPaging ==
    \/ PrevClick
    \/ NextClick
    \/ ResponseArrives

SpecPaging == InitPaging /\ [][NextPaging]_vars

\* ------------------------------------------------------ copy and download
\* The copy and download buttons of the photos in the grid, with the loads
\* that run beside them.  A run starts with page 1 of 2 shown, two photos in
\* the grid; calls counts the calls from there on.

listingVars ==
    <<currentPage, currentQuery, totalPages, isStockFilterActive, grid, searchInput,
      stockCheckbox, prevBtn, nextBtn, pageInfo, searchTimeout, inflight, loaded,
      calls, lastSettled, newestResp, reported, inContract, events, first>>

\* popup.js:42-49  The first load was answered with page 1 of 2, two photos.
PhotosShown ==
    LET shown == Http(200, Listing(Arr(<<FileA, FileB>>), Num(1), Num(2)))
    IN  /\ currentPage = Num(1)
        /\ currentQuery = <<>>
        /\ totalPages = Num(2)
        /\ isStockFilterActive = FALSE
        /\ grid = <<createPhotoElement(FileA), createPhotoElement(FileB)>>
        /\ searchInput = <<>>
        /\ stockCheckbox = FALSE
        /\ prevBtn = TRUE
        /\ nextBtn = FALSE
        /\ pageInfo = PageInfoText(Num(1), Num(2))
        /\ messageElement = ""
        /\ searchTimeout = FALSE
        /\ inflight = <<>>
        /\ loaded = TRUE
        /\ calls = 0
        /\ lastSettled = shown
        /\ newestResp = shown
        /\ reported = [current_page |-> Num(1), total_pages |-> Num(2)]
        /\ inContract = TRUE
        /\ events = 0
        /\ first = NoFirst
        /\ clipboardWrites = <<>>
        /\ messageTimers = 0

Pending == Len(clipboardWrites) + messageTimers

\* popup.js:106, 121, 139-140  A click on a copy button of a photo in the
\* grid: copyTextToClipboard starts the clipboard write.
CopyClick ==
    \E successMessage \in SuccessMessages :
        /\ grid # <<>>
        /\ Pending < MaxPending
        /\ clipboardWrites' = Append(clipboardWrites, successMessage)
        /\ UNCHANGED <<listingVars, messageElement, messageTimers>>

\* popup.js:141-144  The clipboard write succeeded: show the success message
\* and start the timer that empties the message after 2 seconds.
ClipboardResolves ==
    \E i \in 1..Len(clipboardWrites) :
        /\ messageElement' = clipboardWrites[i]
        /\ messageTimers' = messageTimers + 1
        /\ clipboardWrites' = Remove(clipboardWrites, i)
        /\ UNCHANGED listingVars

\* popup.js:145-148  The clipboard write failed.
ClipboardRejects ==
    \E i \in 1..Len(clipboardWrites) :
        /\ messageElement' = CopyError
        /\ clipboardWrites' = Remove(clipboardWrites, i)
        /\ UNCHANGED <<listingVars, messageTimers>>

\* popup.js:129, 153-166  A click on a download button of a photo in the
\* grid.  The whole handler is one step; creating and clicking the link does
\* not throw, so the catch at 168-171 is not entered.
DownloadClick ==
    /\ grid # <<>>
    /\ Pending < MaxPending
    /\ messageElement' = DownloadStarted
    /\ messageTimers' = messageTimers + 1
    /\ UNCHANGED <<listingVars, clipboardWrites>>

\* popup.js:143, 166  A 2-second timer fires: the message is emptied.
MessageTimerFires ==
    /\ messageTimers > 0
    /\ messageTimers' = messageTimers - 1
    /\ messageElement' = ""
    /\ UNCHANGED <<listingVars, clipboardWrites>>

NextMessage ==
    \/ CopyClick
    \/ ClipboardResolves
    \/ ClipboardRejects
    \/ DownloadClick
    \/ MessageTimerFires
    \/ StockChange
    \/ NextClick
    \/ ResponseArrives

SpecMessage == PhotosShown /\ [][NextMessage]_vars

\* ------------------------------------------------- loadPhotos called twice
\* loadPhotos itself, called with arguments of the caller's choosing, and
\* called again with the same arguments once the call before has settled.
\* The server's state does not change between the calls: the same request
\* gets the same response.

CallDirect ==
    \E page \in 1..MaxPage : \E query \in Queries : \E inStockFilter \in BOOLEAN :
        /\ inflight = <<>>
        /\ calls > 0 =>
               /\ page = first.page
               /\ query = first.query
               /\ inStockFilter = first.inStockFilter
        /\ loadPhotos("direct", page, query, inStockFilter)
        /\ UNCHANGED <<currentQuery, isStockFilterActive, searchInput, stockCheckbox,
                       searchTimeout, loaded, events, first, clipboardWrites,
                       messageTimers>>

AnswerDirect ==
    \E response \in Responses :
        /\ inflight # <<>>
        /\ calls > 1 => response = first.response
        /\ Settle(1, response)
        /\ first' = IF calls = 1
                     THEN [page |-> inflight[1].page, query |-> inflight[1].query,
                           inStockFilter |-> inflight[1].inStockFilter,
                           url |-> inflight[1].url, response |-> response,
                           display |-> Display']
                     ELSE first
        /\ UNCHANGED <<clipboardWrites, messageTimers>>

NextTwice ==
    \/ CallDirect
    \/ AnswerDirect

SpecTwice == Init /\ [][NextTwice]_vars

\* ------------------------------------------------------------------ claims

\* What the try block makes of a response on a freshly cleared grid.
Fresh(response) == TryBlock(response, <<>>)
Settled == lastSettled # NoResponse
Failed(response) == Fresh(response).threw
Rendered(files) == [i \in 1..Len(files) |-> createPhotoElement(files[i])]

\* C1  Last request wins: once every call has its response, what is displayed
\* (grid, currentPage, totalPages, page info, prev/next enablement, or the
\* error) is what the response of the call issued last gives, whatever the
\* order the responses arrived in.
C1_LastRequestWins ==
    (calls >= 2 /\ inflight = <<>>) =>
        LET r == Fresh(newestResp)
            data == newestResp.body
        IN  /\ grid = r.grid
            /\ IF r.threw
               THEN messageElement = ErrorText(r.message) /\ prevBtn /\ nextBtn
               ELSE /\ currentPage = data.current_page
                    /\ totalPages = data.total_pages
                    /\ pageInfo = PageInfoText(data.current_page, data.total_pages)
                    /\ prevBtn = JsLe(data.current_page, Num(1))
                    /\ nextBtn = JsGe(data.current_page, data.total_pages)

\* C2  A non-success status S whose body cannot be read as the structured error
\* (not JSON at all, or JSON null) surfaces the generic message naming S.
Unstructured(body) == body.json \in {"syntaxerror", "null"}
C2_StatusFallbackWhenUnparsable ==
    (Settled /\ lastSettled.kind = "http" /\ ~ok(lastSettled) /\ Unstructured(lastSettled.body))
        => messageElement = ErrorText(StatusMessage(lastSettled.status))

\* C3  A non-success status with a JSON object as body surfaces the object's
\* detail when that is a non-empty string, and the generic message naming the
\* status when detail is absent or empty.
C3_DetailSurfaced ==
    (Settled /\ lastSettled.kind = "http" /\ ~ok(lastSettled)
            /\ lastSettled.body.json = "object")
        => LET detail == lastSettled.body.detail
           IN  /\ (detail.t = "string" /\ detail.v # "")
                      => messageElement = ErrorText(detail.v)
               /\ (detail.t = "undefined" \/ detail.v = "")
                      => messageElement = ErrorText(StatusMessage(lastSettled.status))
C3_Witness ==
    /\ lastSettled = Http(500, ErrorObject(Str("db down")))
    /\ messageElement = ErrorText("db down")

\* C4  A 2xx response whose body is not the expected structure (not parseable,
\* or without files, current_page or total_pages) ends in the error state: an
\* error message, prev/next disabled, numbers in currentPage/totalPages and
\* nothing rendered.
ThrownMessages ==
    {FailedToFetch, JsonSyntaxError, NullDetailError, NullFilesError, NoForEachError,
     NullStockError}
Malformed(body) ==
    \/ body.json # "object"
    \/ body.files.t = "undefined"
    \/ body.current_page.t = "undefined"
    \/ body.total_pages.t = "undefined"
C4_MalformedIsError ==
    (Settled /\ lastSettled.kind = "http" /\ ok(lastSettled) /\ Malformed(lastSettled.body))
        => /\ messageElement \in {ErrorText(m) : m \in ThrownMessages}
           /\ prevBtn /\ nextBtn
           /\ currentPage.t = "number" /\ totalPages.t = "number"
           /\ grid = <<>>

\* C5  Clear on error: while the error message of the load that settled last
\* is displayed, the grid is empty.
C5_ClearOnError ==
    (Settled /\ Failed(lastSettled)
            /\ messageElement = ErrorText(Fresh(lastSettled).message))
        => grid = <<>>

\* C6  With no request in flight and the load settled last a success, the grid
\* holds exactly the entries of that one response, in the server's order.
C6_GridIsOneResponse ==
    (inflight = <<>> /\ Settled /\ ~Failed(lastSettled))
        => grid = Rendered(lastSettled.body.files.v)

\* C7  The server is authoritative for pagination: after a successful load
\* currentPage and totalPages are the response's current_page and total_pages,
\* whatever page was requested, and a prev/next request asks for the page next
\* to the page the server reported last.
Newest(calls_in_flight) == calls_in_flight[Len(calls_in_flight)]
C7_Installed ==
    (Settled /\ ~Failed(lastSettled))
        => /\ currentPage = lastSettled.body.current_page
           /\ totalPages = lastSettled.body.total_pages
C7_NextRequest ==
    (calls' = calls + 1 /\ Newest(inflight').trigger \in {"prev", "next"})
        => /\ reported.current_page.t = "number"
           /\ Newest(inflight').page
                = reported.current_page.v
                    + (IF Newest(inflight').trigger = "next" THEN 1 ELSE -1)
C7_ServerAuthoritative == []C7_Installed /\ [][C7_NextRequest]_vars
\* The first load asked for page 1, the server reported page 2, and the prev
\* click asked for page 1.
C7_Witness ==
    /\ calls = 2
    /\ inflight # <<>>
    /\ Newest(inflight).trigger = "prev"
    /\ Newest(inflight).page = 1
    /\ reported.current_page = Num(2)

\* C8  While every response has kept 1 <= current_page <= total_pages, every
\* request issued asks for a page >= 1.
C8_PageAtLeastOne ==
    inContract => \A i \in 1..Len(inflight) : inflight[i].page >= 1
C8_Witness ==
    /\ inContract
    /\ \E i \in 1..Len(inflight) : inflight[i].trigger = "prev" /\ inflight[i].page = 1

\* C9  The request carries no in_stock parameter when inStockFilter is false,
\* and exactly one, in_stock=true, when it is true.
InStockName == <<"i", "n", "_", "s", "t", "o", "c", "k">>
TrueText == <<"t", "r", "u", "e">>
IsInStock(param) == param.name = InStockName
C9_StockParamExact ==
    \A i \in 1..Len(inflight) :
        SelectSeq(ServerParams(inflight[i].url), IsInStock)
            = IF inflight[i].inStockFilter THEN <<Param(InStockName, TrueText)>> ELSE <<>>

\* C10  The request carries the search text unchanged as its query parameter,
\* and the text changes no other parameter: the server reads page, query and
\* (with the filter on) in_stock=true, and nothing else.
PageName == <<"p", "a", "g", "e">>
QueryName == <<"q", "u", "e", "r", "y">>
C10_QueryRoundTrip ==
    \A i \in 1..Len(inflight) :
        ServerParams(inflight[i].url)
            = <<Param(PageName, PageText(inflight[i].page)),
                Param(QueryName, inflight[i].query)>>
                \o (IF inflight[i].inStockFilter THEN <<Param(InStockName, TrueText)>>
                    ELSE <<>>)

\* C11  Every request for a page >= 1 is a GET to /api/list, and its page
\* parameter (the first parameter of that name, the one loadPhotos writes) is
\* the decimal numeral of exactly that page: no offset, no clamping.
IsPage(param) == param.name = PageName
ApiFailures == {response \in Responses : response.kind = "http" /\ ~ok(response)}
C12_KindsDistinguishable ==
    (Settled /\ lastSettled.kind = "network")
        => \A response \in ApiFailures :
               messageElement # ErrorText(Fresh(response).message)

\* C13  After a 2xx response whose files sequence is empty the popup is in the
\* "no results" state: the grid is empty, the not-found text is displayed (no
\* error text), and currentPage and totalPages are the response's.
EmptyListing(response) ==
    /\ response.kind = "http" /\ ok(response)
    /\ response.body.json = "object"
    /\ response.body.files = Arr(<<>>)
C13_NoResultsState ==
    (Settled /\ EmptyListing(lastSettled))
        => /\ grid = <<>>
           /\ messageElement = NotFound
           /\ currentPage = lastSettled.body.current_page
           /\ totalPages = lastSettled.body.total_pages

\* C14  No automatic retry: the requests issued never outnumber the events
\* (DOMContentLoaded, the debounce timer firing, a change of the checkbox, a
\* prev or next click) whose handler called loadPhotos; a load that failed
\* issues no request of its own.
C14_NoAutomaticRetry == calls <= events
\* Both loads of the run have failed and nothing is in flight.
C14_Witness ==
    /\ calls = MaxCalls
    /\ inflight = <<>>
    /\ Settled /\ Failed(lastSettled)
    /\ newestResp # NoResponse /\ Failed(newestResp)

\* C15  Idempotence: loadPhotos called again with the same (page, query,
\* inStockFilter), the server's state unchanged, issues the same request, and
\* once it has settled the popup is in the state the first call left it in:
\* the same grid, the same entries in the same order, the same currentPage
\* and totalPages, the same buttons and texts.
C15_Idempotent ==
    /\ calls >= 2 => \A i \in 1..Len(inflight) :
                         inflight[i].url = first.url /\ inflight[i].method = "GET"
    /\ (calls >= 2 /\ inflight = <<>>) => Display = first.display
\* Page 2 of the search for "a" was listed twice, with files.
C15_Witness ==
    /\ calls = 2
    /\ inflight = <<>>
    /\ first.page = 2
    /\ first.query = <<"a">>
    /\ ~Failed(first.response)
    /\ grid = Rendered(<<FileA, FileB>>)

\* C16  The listing operation mutates no shared state: a step of loadPhotos
\* that handles a response (the only steps that are loadPhotos' alone) leaves
\* currentPage, currentQuery, totalPages and isStockFilterActive unchanged.
HandlesResponse == Len(inflight') < Len(inflight)
C16_NoSharedStateMutation ==
    [][HandlesResponse
          => UNCHANGED <<currentPage, currentQuery, totalPages, isStockFilterActive>>]_vars

\* C17  A request issued for a new search text or a change of the checkbox
\* asks for page 1; every request is issued with the currentQuery and
\* isStockFilterActive in force when it is issued; a prev/next request leaves
\* both unchanged.
IssuesRequest == calls' = calls + 1
C17_Request ==
    IssuesRequest =>
        LET request == Newest(inflight')
        IN  /\ request.trigger \in {"search", "stock"} => request.page = 1
            /\ request.query = currentQuery'
            /\ request.inStockFilter = isStockFilterActive'
            /\ request.trigger \in {"prev", "next"}
                   => UNCHANGED <<currentQuery, isStockFilterActive>>
C17_FiltersCarried == [][C17_Request]_vars
\* The server had reported page 2 when the search for "a" was issued: it
\* asks for page 1 of "a".
C17_Witness ==
    \E i \in 1..Len(inflight) :
        /\ inflight[i].trigger = "search"
        /\ inflight[i].page = 1
        /\ inflight[i].query = <<"a">>
        /\ currentQuery = <<"a">>
        /\ currentPage = Num(2)

\* C18  Search debounce.  An input event issues no request and leaves
\* currentQuery alone; it leaves one timer pending.  A search request is
\* issued only by the pending timer firing (500 ms after the last input
\* event), which issues exactly one request, with the text the field holds
\* then, and leaves no timer pending: a burst of input events gets one
\* request, and none for a text the field held in between.
C18_Input ==
    searchInput' # searchInput
        => /\ searchTimeout'
           /\ UNCHANGED <<calls, inflight, currentQuery>>
C18_Fires ==
    (searchTimeout /\ ~searchTimeout')
        => /\ calls' = calls + 1
           /\ Len(inflight') = Len(inflight) + 1
           /\ Newest(inflight').trigger = "search"
           /\ Newest(inflight').query = searchInput
           /\ currentQuery' = searchInput
           /\ searchInput' = searchInput
C18_OnlyTheTimer ==
    (IssuesRequest /\ Newest(inflight').trigger = "search")
        => searchTimeout /\ ~searchTimeout'
C18_Debounce == [][C18_Input /\ C18_Fires /\ C18_OnlyTheTimer]_vars
\* The field was filled and emptied again before the timer fired: the one
\* request of the burst asks for the empty text, and none was issued for the
\* text in between.
C18_Witness ==
    /\ calls = 2
    /\ Len(inflight) = 2
    /\ inflight[1].trigger = "init"
    /\ inflight[2].trigger = "search"
    /\ inflight[2].query = <<>>
    /\ searchInput = <<>>
    /\ ~searchTimeout

\* C19  Once the first load has completed, the buttons agree with the
\* pagination state in every state: the next button is enabled only if
\* currentPage < totalPages, the prev button only if currentPage > 1.
SomeLoadCompleted == calls > Len(inflight)
C19_ButtonsAgree ==
    SomeLoadCompleted
        => /\ ~nextBtn => JsLt(currentPage, totalPages)
           /\ ~prevBtn => JsGt(currentPage, Num(1))

\* C20  Whatever the order of prev/next clicks and responses, several clicks
\* before any response included: a next click issues a request only when
\* currentPage < totalPages and a prev click only when currentPage > 1; the
\* page asked for is in 1..totalPages, for the totalPages at the click; a
\* click at a bound issues no request and changes nothing (every step that is
\* not the handling of a response issues a request).
C20_Guarded ==
    IssuesRequest =>
        /\ Newest(inflight').trigger = "next" => JsLt(currentPage, totalPages)
        /\ Newest(inflight').trigger = "prev" => JsGt(currentPage, Num(1))
C20_InRange ==
    IssuesRequest =>
        /\ totalPages.t = "number"
        /\ Newest(inflight').page \in 1..totalPages.v
C20_AtBoundNothing == ~HandlesResponse => IssuesRequest
C20_ClicksGuarded == [][C20_Guarded /\ C20_InRange /\ C20_AtBoundNothing]_vars
\* C20, amended  The same, the page asked for being in 1..totalPages provided
\* every response so far has kept 1 <= current_page <= total_pages.
C20_ClicksGuardedInContract ==
    [][C20_Guarded /\ (inContract => C20_InRange) /\ C20_AtBoundNothing]_vars
\* Page 1 of 2 is shown and next was clicked twice before any response: two
\* requests for page 2 are in flight.
C20_Witness ==
    /\ inContract
    /\ currentPage = Num(1) /\ totalPages = Num(2)
    /\ Len(inflight) = 2
    /\ \A i \in 1..2 : inflight[i].trigger = "next" /\ inflight[i].page = 2

\* C21  A load that fails (no response, a non-2xx status, a body that cannot
\* be read) leaves currentPage, totalPages, currentQuery and
\* isStockFilterActive as they are and disables both buttons; a button is
\* enabled again only by a load that succeeds.
C21_FailureStep ==
    (HandlesResponse /\ Failed(lastSettled'))
        => /\ UNCHANGED <<currentPage, totalPages, currentQuery, isStockFilterActive>>
           /\ prevBtn' /\ nextBtn'
C21_EnabledBySuccess ==
    ((prevBtn /\ ~prevBtn') \/ (nextBtn /\ ~nextBtn'))
        => (HandlesResponse /\ ~Failed(lastSettled'))
C21_FailedLoadKeepsState == [][C21_FailureStep /\ C21_EnabledBySuccess]_vars
\* Page 2 of 2 was installed and the prev button enabled; the load after it
\* failed: the page is still 2 of 2 and both buttons are disabled.
C21_Witness ==
    /\ inflight = <<>>
    /\ Settled /\ Failed(lastSettled)
    /\ currentPage = Num(2) /\ totalPages = Num(2)
    /\ prevBtn /\ nextBtn

\* C22  A 2-second timer started by a copy or a download erases only its own
\* success message: when it fires, it leaves alone the error message of a
\* load, the loading message of a request in flight, and the not-found
\* message (any of these on display was written after the timer was started).
TimerFires == messageTimers' = messageTimers - 1
ListingMessageShown ==
    \/ Settled /\ Failed(lastSettled)
           /\ messageElement = ErrorText(Fresh(lastSettled).message)
    \/ inflight # <<>> /\ messageElement = Loading
    \/ messageElement = NotFound
C22_TimersClearOwnMessage ==
    [][(TimerFires /\ ListingMessageShown) => messageElement' = messageElement]_vars
====
